---- MODULE Spec2Model ----
(***************************************************************************)
(* Model of quasi (src/src/lib.rs): the run-time interpolation engine      *)
(* `interpolate`, and the `Interpolate` implementation for Punctuated.     *)
(*                                                                         *)
(* A TokenStream is a sequence of token trees.  A token tree is a record   *)
(* [kind, text, span, delimiter, stream]; `kind` is the TokenTree variant, *)
(* `text` the identifier / literal / punctuation text, `delimiter` and     *)
(* `stream` are meaningful for groups only.  A `&dyn ToTokens` value is    *)
(* modelled by the tokens it renders.                                      *)
(***************************************************************************)
EXTENDS Integers, Sequences, FiniteSets, TLC

VARIABLES stream, replacements, stack, result, items, idx, implementations, pc

vars == <<stream, replacements, stack, result, items, idx, implementations, pc>>

(* ---------------------------- bounds ----------------------------------- *)

\* largest number of tokens (counted at every nesting level) of a template
\* handed directly to interpolate
MaxNodes == 3
\* largest number of tokens of a template handed to a Punctuated list
MaxTemplateNodes == 2
\* largest number of items of a Punctuated list
MaxItems == 2

(* ---------------------------- token trees ------------------------------ *)

\* Span::call_site(), the span Group::new gives a fresh group
CallSite == "call_site"

Literal(text, span) ==
    [kind |-> "Literal", text |-> text, span |-> span, delimiter |-> "None", stream |-> <<>>]

Punct(text, span) ==
    [kind |-> "Punct", text |-> text, span |-> span, delimiter |-> "None", stream |-> <<>>]

Ident(text, span) ==
    [kind |-> "Ident", text |-> text, span |-> span, delimiter |-> "None", stream |-> <<>>]

Group(delimiter, span, inner) ==
    [kind |-> "Group", text |-> "", span |-> span, delimiter |-> delimiter, stream |-> inner]

\* Group::new(delimiter, stream): a group spanned at the call site
Group_new(delimiter, inner) == Group(delimiter, CallSite, inner)

\* set_span left out: the new group keeps the span Group::new gave it
set_span_left_out(group, span) == group

\* group.set_span(span)
set_span(group, span) == [group EXCEPT !.span = span]

\* ident.to_string()
to_string(ident) == ident.text

\* TokenStream::new()
TokenStream_new == <<>>

\* the token is put before the tokens of new
append_front(new, token) == <<token>> \o new

\* the token is merged with an equal token at the end of new
append_merged(new, token) ==
    IF new # <<>> /\ new[Len(new)] = token THEN new ELSE Append(new, token)

\* new.append(token)
append(new, token) == Append(new, token)

\* value.to_tokens(&mut new): the value renders its tokens at the end of new
to_tokens(value, new) == new \o value

\* the tokens are put before the tokens of implementations
extend_front(implementations_, tokens) == tokens \o implementations_

\* implementations.extend(tokens)
extend(implementations_, tokens) == implementations_ \o tokens

(* ---------------------------- interpolate ------------------------------ *)

\* the literal is looked up in the replacement set by its text
literal_arm_looked_up(new, literal, replacements_) ==
    IF literal.text \in DOMAIN replacements_
    THEN to_tokens(replacements_[literal.text], new)
    ELSE append(new, literal)

\* TokenTree::Literal(literal) => new.append(literal)
literal_arm(new, literal, replacements_) == append(new, literal)

\* TokenTree::Punct(punct) => new.append(punct)
punct_arm(new, punct, replacements_) == append(new, punct)

\* the group is kept as is: what the recursive call returned is dropped
group_arm_as_is(new, group, inner) == append(new, group)

\* TokenTree::Group(group), once the recursive call has returned `inner`: a
\* new group of the same delimiter around `inner`, given the span of the old
group_arm(new, group, inner) ==
    append(new, set_span(Group_new(group.delimiter, inner), group.span))

\* `continue` left out: the identifier follows the tokens of its value
ident_arm_no_continue(new, ident, replacements_) ==
    IF to_string(ident) \in DOMAIN replacements_
    THEN append(to_tokens(replacements_[to_string(ident)], new), ident)
    ELSE append(new, ident)

\* an identifier that is not a key is made anew from its text, at the call site
ident_arm_made_anew(new, ident, replacements_) ==
    IF to_string(ident) \in DOMAIN replacements_
    THEN to_tokens(replacements_[to_string(ident)], new)
    ELSE append(new, Ident(to_string(ident), CallSite))

RECURSIVE expand_once(_, _)
\* the tokens with every identifier that is a key replaced by its value
expand_once(tokens, replacements_) ==
    IF tokens = <<>> THEN <<>>
    ELSE LET t == Head(tokens)
         IN (IF t.kind = "Ident" /\ t.text \in DOMAIN replacements_
             THEN replacements_[t.text]
             ELSE << [t EXCEPT !.stream = expand_once(t.stream, replacements_)] >>)
            \o expand_once(Tail(tokens), replacements_)

\* the tokens of the value are scanned once more against the replacement set
ident_arm_scanned_again(new, ident, replacements_) ==
    IF to_string(ident) \in DOMAIN replacements_
    THEN to_tokens(expand_once(replacements_[to_string(ident)], replacements_), new)
    ELSE append(new, ident)

\* TokenTree::Ident(ident): the value of the replacement set renders itself
\* into `new`, or the identifier is copied as is
ident_arm(new, ident, replacements_) ==
    IF to_string(ident) \in DOMAIN replacements_
    THEN to_tokens(replacements_[to_string(ident)], new)
    ELSE append(new, ident)

RECURSIVE interpolate(_, _)
RECURSIVE for_each(_, _, _, _)
RECURSIVE match_token(_, _, _)

\* the body of the loop over the tokens: what one token adds to `new`
match_token(new, token, replacements_) ==
    CASE token.kind = "Literal" -> literal_arm(new, token, replacements_)
      [] token.kind = "Punct" -> punct_arm(new, token, replacements_)
      [] token.kind = "Group" ->
            group_arm(new, token, interpolate(token.stream, replacements_))
      [] token.kind = "Ident" -> ident_arm(new, token, replacements_)

\* the loop over stream.into_iter(), from token i on
for_each(tokens, i, new, replacements_) ==
    IF i > Len(tokens) THEN new
    ELSE for_each(tokens, i + 1, match_token(new, tokens[i], replacements_), replacements_)

\* interpolate(stream, replacements), as a function of its arguments
interpolate(tokens, replacements_) == for_each(tokens, 1, TokenStream_new, replacements_)

(* ---------------------------- inputs ----------------------------------- *)

\* the span of the tokens a replacement value renders; the tokens of a
\* template are spanned "s1" or "s2"
FragmentSpan == "s3"

Leaves == { Ident("TRAIT", "s1"), Ident("CONCRETE", "s2"), Literal("1", "s1"), Punct(";", "s2") }

GroupLabels == { <<"Parenthesis", "s1">>, <<"Brace", "s2">> }

RECURSIVE TreesOf(_, _)
RECURSIVE StreamsOf(_, _)

\* the token trees of exactly n tokens, with leaves of L
TreesOf(L, n) ==
    (IF n = 1 THEN L ELSE {})
    \cup { Group(l[1], l[2], inner) : l \in GroupLabels, inner \in StreamsOf(L, n - 1) }

\* the token streams of exactly n tokens, with leaves of L
StreamsOf(L, n) ==
    IF n = 0 THEN { <<>> }
    ELSE UNION { { <<t>> \o rest : t \in TreesOf(L, k), rest \in StreamsOf(L, n - k) } :
                    k \in 1..n }

\* the token streams of at most n tokens, with leaves of L
Streams(L, n) == UNION { StreamsOf(L, k) : k \in 0..n }

\* keys of a replacement set: two placeholder names, and a key with the text
\* of a literal
Keys == { "TRAIT", "CONCRETE", "1" }

\* many tokens, among them identifiers that are keys, one inside a group
Many ==
    << Ident("TRAIT", FragmentSpan),
       Group("Brace", FragmentSpan, << Ident("CONCRETE", FragmentSpan) >>) >>

\* what the value of a key may render: nothing, one token, or many tokens
Values ==
    [key \in Keys |->
        CASE key = "TRAIT" -> { <<>>, Many }
          [] key = "CONCRETE" -> { << Ident("Display", FragmentSpan) >>, Many }
          [] key = "1" -> { << Ident("Display", FragmentSpan) >> }]

\* the replacement sets: any keys, each with one of its values
Mappings ==
    UNION { { m \in [S -> UNION { Values[key] : key \in Keys }] :
                \A key \in S : m[key] \in Values[key] } : S \in SUBSET Keys }

(* ---------------------------- the call --------------------------------- *)

Frame(tokens) == [input |-> tokens, pos |-> 0, new |-> TokenStream_new]

Top == stack[Len(stack)]

\* the token the innermost loop is at
Current == Top.input[Top.pos + 1]

AtToken == pc = "running" /\ stack # <<>> /\ Top.pos < Len(Top.input)

\* the end of the tokens is looked for one past the last token
AtEnd_one_past == pc = "running" /\ stack # <<>> /\ Top.pos > Len(Top.input)

AtEnd == pc = "running" /\ stack # <<>> /\ Top.pos = Len(Top.input)

\* the innermost loop has handled its current token, and `new` is now out
Advance(out) ==
    stack' = [stack EXCEPT ![Len(stack)] = [@ EXCEPT !.pos = @ + 1, !.new = out]]

\* the template, the replacement set and the list are only read by the loop
Frozen == UNCHANGED <<stream, replacements, items, idx, implementations>>

\* TokenTree::Literal(literal) => new.append(literal)
LiteralArm ==
    /\ AtToken /\ Current.kind = "Literal"
    /\ Advance(literal_arm(Top.new, Current, replacements))
    /\ UNCHANGED <<result, pc>> /\ Frozen

\* TokenTree::Punct(punct) => new.append(punct)
PunctArm ==
    /\ AtToken /\ Current.kind = "Punct"
    /\ Advance(punct_arm(Top.new, Current, replacements))
    /\ UNCHANGED <<result, pc>> /\ Frozen

\* TokenTree::Group(group): the recursive call interpolate(group.stream(), ..)
GroupCall ==
    /\ AtToken /\ Current.kind = "Group"
    /\ stack' = Append(stack, Frame(Current.stream))
    /\ UNCHANGED <<result, pc>> /\ Frozen

\* the recursive call returns its `new`; the caller wraps it in a group of the
\* same delimiter and span and appends it
GroupReturn ==
    /\ AtEnd /\ Len(stack) > 1
    /\ LET caller == stack[Len(stack) - 1]
           group == caller.input[caller.pos + 1]
       IN stack' = [SubSeq(stack, 1, Len(stack) - 1) EXCEPT ![Len(stack) - 1] =
                        [@ EXCEPT !.pos = @ + 1, !.new = group_arm(caller.new, group, Top.new)]]
    /\ UNCHANGED <<result, pc>> /\ Frozen

\* TokenTree::Ident(ident), found in the replacement set
IdentReplace ==
    /\ AtToken /\ Current.kind = "Ident"
    /\ to_string(Current) \in DOMAIN replacements
    /\ Advance(ident_arm(Top.new, Current, replacements))
    /\ UNCHANGED <<result, pc>> /\ Frozen

\* TokenTree::Ident(ident), not found: copied as is
IdentCopy ==
    /\ AtToken /\ Current.kind = "Ident"
    /\ to_string(Current) \notin DOMAIN replacements
    /\ Advance(ident_arm(Top.new, Current, replacements))
    /\ UNCHANGED <<result, pc>> /\ Frozen

\* the outermost call returns `new`
Return ==
    /\ AtEnd /\ Len(stack) = 1
    /\ result' = Top.new
    /\ stack' = <<>>
    /\ pc' = "returned"
    /\ Frozen

Init ==
    /\ stream \in Streams(Leaves, MaxNodes)
    /\ replacements \in Mappings
    /\ stack = << Frame(stream) >>
    /\ result = TokenStream_new
    /\ items = <<>>
    /\ idx = 0
    /\ implementations = TokenStream_new
    /\ pc = "running"

Next ==
    \/ LiteralArm
    \/ PunctArm
    \/ GroupCall
    \/ GroupReturn
    \/ IdentReplace
    \/ IdentCopy
    \/ Return

Spec == Init /\ [][Next]_vars

(* ---------------------------- Punctuated ------------------------------- *)

\* an item of the list, as the TraitSpecifier of the tests: two values, each
\* rendering tokens
Types == { << Ident("IButton", FragmentSpan) >>,
           << Ident("TRAIT", FragmentSpan), Punct(";", FragmentSpan) >> }

Concretes == { << Ident("BigButton", FragmentSpan) >>, <<>> }

\* the leaves of a template given to a list: the two placeholders of a
\* TraitSpecifier among tokens that are not placeholders
TemplateLeaves == Leaves \cup { Ident("let", "s1") }

TraitSpecifiers == [abstract_trait : Types, concrete : Concretes]

\* the replacement set an item builds in its own interpolate:
\* "TRAIT" is replaced by the abstract trait, "CONCRETE" by the concrete type
Replacements(t) ==
    [key \in { "TRAIT", "CONCRETE" } |->
        IF key = "TRAIT" THEN t.abstract_trait ELSE t.concrete]

RECURSIVE SeqsOf(_, _)
\* the sequences of exactly n elements of S
SeqsOf(S, n) ==
    IF n = 0 THEN { <<>> } ELSE { Append(q, x) : q \in SeqsOf(S, n - 1), x \in S }

\* the fold calls t.interpolate(stream.clone()) for the next item t, which
\* builds its replacement set and calls interpolate
FoldCall ==
    /\ pc = "fold" /\ idx < Len(items)
    /\ replacements' = Replacements(items[idx + 1])
    /\ stack' = << Frame(stream) >>
    /\ pc' = "running"
    /\ UNCHANGED <<stream, result, items, idx, implementations>>

\* implementations.extend(..) with what the item's interpolate returned
FoldExtend ==
    /\ pc = "returned" /\ idx < Len(items)
    /\ implementations' = extend(implementations, result)
    /\ idx' = idx + 1
    /\ pc' = "fold"
    /\ UNCHANGED <<stream, replacements, stack, result, items>>

\* the iterator is exhausted: the fold returns implementations
FoldReturn ==
    /\ pc = "fold" /\ idx = Len(items)
    /\ pc' = "done"
    /\ UNCHANGED <<stream, replacements, stack, result, items, idx, implementations>>

InitPunctuated ==
    /\ stream \in Streams(TemplateLeaves, MaxTemplateNodes)
    /\ items \in UNION { SeqsOf(TraitSpecifiers, n) : n \in 0..MaxItems }
    /\ replacements = <<>>
    /\ stack = <<>>
    /\ result = TokenStream_new
    /\ idx = 0
    /\ implementations = TokenStream_new
    /\ pc = "fold"

NextPunctuated ==
    \/ FoldCall
    \/ LiteralArm
    \/ PunctArm
    \/ GroupCall
    \/ GroupReturn
    \/ IdentReplace
    \/ IdentCopy
    \/ Return
    \/ FoldExtend
    \/ FoldReturn

SpecPunctuated == InitPunctuated /\ [][NextPunctuated]_vars

\* a call that is running takes its next step; the scheduling of a
\* sequential program
FairSpec == Spec /\ WF_vars(Next)

(* ---------------------------- properties ------------------------------- *)

\* the calls of interpolate that are running or, for the outermost one, have
\* returned: the tokens given, how many of them are handled, the output
Calls ==
    { stack[i] : i \in 1..Len(stack) }
    \cup (IF pc = "returned"
          THEN { [input |-> stream, pos |-> Len(stream), new |-> result] }
          ELSE {})

Matched(token) == token.kind = "Ident" /\ token.text \in DOMAIN replacements

\* how many tokens a token of the input stands for in the output
Width(token) == IF Matched(token) THEN Len(replacements[token.text]) ELSE 1

RECURSIVE Offset(_, _)
\* how many tokens of the output stand before those of the k-th input token
Offset(input, k) == IF k <= 1 THEN 0 ELSE Offset(input, k - 1) + Width(input[k - 1])

Slice(s, off, len) == SubSeq(s, off + 1, off + len)

IsPrefix(s, t) == Len(s) <= Len(t) /\ SubSeq(t, 1, Len(s)) = s

RECURSIVE KeyIdents(_)
\* how many identifiers of the tokens, at any depth, are named by a key
KeyIdents(tokens) ==
    IF tokens = <<>> THEN 0
    ELSE LET t == Head(tokens)
         IN (IF Matched(t) THEN 1 ELSE 0) + KeyIdents(t.stream) + KeyIdents(Tail(tokens))

RECURSIVE SubStreams(_)
\* the token streams of a template: itself and the stream of every group
SubStreams(tokens) ==
    { tokens } \cup UNION { SubStreams(tokens[i].stream) :
                              i \in { j \in 1..Len(tokens) : tokens[j].kind = "Group" } }

\* C1: match substitution. In every call, at every depth, the output holds
\* for each handled identifier that is a key exactly the tokens its value
\* renders, at the place of the identifier, and nothing else is added.
MatchSubstitution ==
    \A c \in Calls :
        /\ Len(c.new) = Offset(c.input, c.pos + 1)
        /\ \A k \in 1..c.pos :
              Matched(c.input[k]) =>
                 Slice(c.new, Offset(c.input, k), Width(c.input[k]))
                    = replacements[c.input[k].text]

\* a key inside a group is replaced by many tokens and a second one by none
MatchSubstitutionWitness ==
    /\ pc = "returned"
    /\ Len(stream) = 2
    /\ stream[1].kind = "Group" /\ stream[1].stream = << Ident("CONCRETE", "s2") >>
    /\ stream[2] = Ident("TRAIT", "s1")
    /\ "CONCRETE" \in DOMAIN replacements /\ Len(replacements["CONCRETE"]) = 2
    /\ "TRAIT" \in DOMAIN replacements /\ replacements["TRAIT"] = <<>>
    /\ Len(result) = 1 /\ result[1].stream = replacements["CONCRETE"]

\* C2: non-match preservation. In every call, every handled identifier that
\* is not a key stands in the output as the same identifier (name and span),
\* at its place.
NonMatchPreservation ==
    \A c \in Calls : \A k \in 1..c.pos :
        (c.input[k].kind = "Ident" /\ ~Matched(c.input[k])) =>
            /\ Offset(c.input, k) + 1 <= Len(c.new)
            /\ c.new[Offset(c.input, k) + 1] = c.input[k]

\* an identifier is kept after another one of the same stream was replaced
NonMatchPreservationWitness ==
    /\ pc = "returned"
    /\ stream = << Ident("TRAIT", "s1"), Ident("CONCRETE", "s2") >>
    /\ DOMAIN replacements = { "TRAIT" } /\ Len(replacements["TRAIT"]) = 2
    /\ Len(result) = 3 /\ result[3] = Ident("CONCRETE", "s2")

\* C4: identity. With the empty replacement set the returned stream is the
\* given one, token for token, delimiters, nesting and spans included.
Identity ==
    (pc = "returned" /\ DOMAIN replacements = {}) => result = stream

\* a stream with an identifier two groups deep went through
IdentityWitness ==
    /\ pc = "returned" /\ DOMAIN replacements = {}
    /\ Len(stream) = 1 /\ stream[1].kind = "Group" /\ stream[1].delimiter = "Brace"
    /\ Len(stream[1].stream) = 1 /\ stream[1].stream[1].kind = "Group"
    /\ stream[1].stream[1].stream = << Ident("TRAIT", "s1") >>
    /\ result = stream

StructuralRecursion ==
    \A c \in Calls :
        (Len(c.input) = 1 /\ c.pos = 1 /\ c.input[1].kind = "Group") =>
            c.new = << [kind |-> "Group", text |-> "",
                        span |-> c.input[1].span,
                        delimiter |-> c.input[1].delimiter,
                        stream |-> interpolate(c.input[1].stream, replacements)] >>

\* a brace group whose children change returned as a brace group of its span
StructuralRecursionWitness ==
    /\ pc = "returned"
    /\ Len(stream) = 1 /\ stream[1].kind = "Group"
    /\ stream[1].delimiter = "Brace" /\ stream[1].span = "s2"
    /\ Len(stream[1].stream) = 2 /\ Matched(stream[1].stream[1])
    /\ Len(result) = 1 /\ result[1].delimiter = "Brace" /\ result[1].span = "s2"
    /\ result[1].stream # stream[1].stream

\* C7: single pass. The tokens of a value are never scanned: every stream a
\* call scans is a stream of the template, and where a value holding
\* identifiers named by keys (its own key among them, inside groups too) was
\* rendered, the output holds these identifiers, not their values.
SinglePass ==
    /\ \A i \in 1..Len(stack) : stack[i].input \in SubStreams(stream)
    /\ \A c \in Calls : \A k \in 1..c.pos :
          (Matched(c.input[k]) /\ KeyIdents(replacements[c.input[k].text]) > 0) =>
             LET out == Slice(c.new, Offset(c.input, k), Width(c.input[k]))
             IN /\ KeyIdents(out) = KeyIdents(replacements[c.input[k].text])
                /\ out = replacements[c.input[k].text]

\* a value holding its own key and another key was rendered inside a group
SinglePassWitness ==
    /\ pc = "returned"
    /\ { "TRAIT", "CONCRETE" } \subseteq DOMAIN replacements
    /\ KeyIdents(replacements["TRAIT"]) = 2
    /\ Len(stream) = 1 /\ stream[1].kind = "Group"
    /\ stream[1].stream = << Ident("TRAIT", "s1") >>
    /\ KeyIdents(result) = 2
    /\ result[1].stream = replacements["TRAIT"]

\* C8: totality and termination. Every call of interpolate returns.
Terminates == <>(pc = "returned")

\* a call returned whose replacement set maps a key to tokens holding it
TerminatesWitness ==
    /\ pc = "returned"
    /\ "TRAIT" \in DOMAIN replacements
    /\ KeyIdents(replacements["TRAIT"]) > 0
    /\ Len(stream) = 2 /\ stream[1] = Ident("TRAIT", "s1")
    /\ stream[2].kind = "Group" /\ stream[2].stream = << Ident("TRAIT", "s1") >>
    /\ stack = <<>>

\* what every call has produced: the interpolation of the tokens it handled
ScanInv ==
    \A i \in 1..Len(stack) :
        /\ stack[i].pos \in 0..Len(stack[i].input)
        /\ stack[i].new = interpolate(SubSeq(stack[i].input, 1, stack[i].pos), replacements)

\* one step: a call keeps its tokens, moves on by at most one token and
\* never back, and its output only grows at its end; what the outermost
\* call returns begins with what it had produced
ScanStep ==
    /\ \A i \in 1..Len(stack) :
          i <= Len(stack') =>
             /\ stack'[i].input = stack[i].input
             /\ stack'[i].pos \in { stack[i].pos, stack[i].pos + 1 }
             /\ IsPrefix(stack[i].new, stack'[i].new)
             /\ (stack'[i].pos = stack[i].pos => stack'[i].new = stack[i].new)
    /\ (stack # <<>> /\ stack' = <<>>) =>
          /\ stack[1].pos = Len(stack[1].input)
          /\ result' = stack[1].new
    /\ pc = "returned" => result' = result

\* C9: single forward scan. The tokens of a call are handled left to right,
\* each once; after k tokens the output is the interpolation of these k
\* tokens, and it stays the beginning of all later outputs and of the result.
SingleForwardScan == []ScanInv /\ [][ScanStep]_vars

\* half way through a stream of a group and a key, the output is one group
SingleForwardScanWitness ==
    /\ pc = "running" /\ Len(stack) = 1
    /\ Len(stack[1].input) = 2 /\ stack[1].pos = 1
    /\ stack[1].input[1].kind = "Group" /\ Matched(stack[1].input[2])
    /\ Len(stack[1].new) = 1 /\ stack[1].new[1].kind = "Group"

\* C10: interpolate distributes over concatenation. However the given
\* stream is cut in two, the result is the interpolation of the first part
\* followed by the interpolation of the second.
Distributes ==
    pc = "returned" =>
        \A p \in 0..Len(stream) :
            result = interpolate(SubSeq(stream, 1, p), replacements)
                        \o interpolate(SubSeq(stream, p + 1, Len(stream)), replacements)

\* the same key twice, replaced twice by many tokens
DistributesWitness ==
    /\ pc = "returned"
    /\ stream = << Ident("TRAIT", "s1"), Ident("TRAIT", "s1") >>
    /\ "TRAIT" \in DOMAIN replacements /\ Len(replacements["TRAIT"]) = 2
    /\ result = replacements["TRAIT"] \o replacements["TRAIT"]

RECURSIVE Expansions(_, _)
\* the expansions of the template by the first n items, one after the other
Expansions(list, n) ==
    IF n = 0 THEN <<>>
    ELSE Expansions(list, n - 1) \o interpolate(stream, Replacements(list[n]))

\* C3: combinator concatenation. Between two items the accumulated stream is
\* the expansions of the template by the items folded so far, in their
\* order; every item is expanded once, against the whole template and its
\* own replacement set; the fold returns when all items are folded, and
\* returns the empty stream for the empty list.
PunctuatedConcatenation ==
    /\ idx \in 0..Len(items)
    /\ pc \in { "fold", "done" } => implementations = Expansions(items, idx)
    /\ pc \in { "running", "returned" } =>
          /\ idx < Len(items)
          /\ replacements = Replacements(items[idx + 1])
          /\ implementations = Expansions(items, idx)
          /\ stack # <<>> => stack[1].input = stream
    /\ pc = "done" => idx = Len(items)
    /\ (pc = "done" /\ items = <<>>) => implementations = <<>>

\* two different items expanded a template holding both keys
PunctuatedConcatenationWitness ==
    /\ pc = "done"
    /\ Len(items) = 2 /\ items[1] # items[2]
    /\ stream = << Ident("TRAIT", "s1"), Ident("CONCRETE", "s2") >>
    /\ implementations = items[1].abstract_trait \o items[1].concrete
                            \o items[2].abstract_trait \o items[2].concrete
    /\ Len(implementations) >= 3

====
